---- MODULE Spec2Model ----
(***************************************************************************)
(* A model of src/lib.rs of jenkins-rs: the Jenkins client, its trigger    *)
(* call build_with_parameter and its queue resolver poll_queue_item.       *)
(*                                                                         *)
(* The HTTP transport (reqwest), the timer (tokio::time::sleep) and the    *)
(* server are the environment: every send() is answered by an outcome the  *)
(* model draws from a small set, a transport error or a response.  A call  *)
(* is cut into steps at its await points.  Each call keeps a log of what   *)
(* it handed to the transport, what came back and the sleeps it completed. *)
(***************************************************************************)
EXTENDS Integers, Sequences, FiniteSets, TLC

(* ------------------------------ bounds -------------------------------- *)

\* Call slots of the one client (futures the caller may hold).
NumCalls == 2
\* Polls one call may issue before the model stops following it.
MaxPolls == 3

Calls == 1..NumCalls

(* ------------------------- Option and Result -------------------------- *)

None == [t |-> "None"]
Some(v) == [t |-> "Some", v |-> v]
Ok(v) == [ok |-> TRUE, val |-> v]
Err(e) == [ok |-> FALSE, err |-> e]

(* --------------------------- error values ----------------------------- *)

\* Error::APIError(String)
APIError(msg) == [ty |-> "Error", variant |-> "APIError", msg |-> msg]
\* Error::QueueItemNotExists
QueueItemNotExists == [ty |-> "Error", variant |-> "QueueItemNotExists"]
\* Error::NetworkError(reqwest::Error)
NetworkError(err) == [ty |-> "Error", variant |-> "NetworkError", source |-> err]
\* A reqwest::Error of the given kind, as the transport hands it out.
ReqwestError(kind) == [ty |-> "reqwest::Error", kind |-> kind]
\* anyhow's .context(msg) on an error: the error wrapped with a message.
WithContext(err, msg) == [ty |-> "Context", context |-> msg, source |-> err]

(* ------------------------- inputs of the model ------------------------ *)

BaseUrls == {"https://ci.example", "https://jenkins.domain.com"}
Users == {"jenkins-user"}
Passwords == {"jenkins-token"}
Jobs == {"smoke-test"}

EmptyParams == [k \in {} |-> ""]
EnvParams == [k \in {"Env"} |-> "staging"]
AdhocParams ==
    [k \in {"HostLimit", "Module"} |->
        IF k = "HostLimit" THEN "xxx" ELSE "ansible.builtin.ping"]
\* The HashMap<&str, &str> values a caller passes.
ParamMaps == {EmptyParams, EnvParams, AdhocParams}

\* The orders in which a HashMap may hand out the keys in S.
Orders(S) ==
    {o \in [1..Cardinality(S) -> S] : \A i, j \in DOMAIN o : o[i] = o[j] => i = j}

\* A header value: its bytes, and whether all of them are visible ASCII.
HeaderValue(bytes, ascii) == [bytes |-> bytes, visible_ascii |-> ascii]
Location42 == "https://ci.example/queue/item/42/"
Location43 == "https://ci.example/queue/item/43"
LocationHeaders ==
    {None,
     Some(HeaderValue(Location42, TRUE)),
     Some(HeaderValue(Location43, TRUE)),
     Some(HeaderValue("https://ci.example/queue/item/<0xFF>/", FALSE))}

TransportErrors == {ReqwestError("connect"), ReqwestError("timeout")}

TriggerStatuses == {201, 302, 401, 404, 500}
\* What send() of the trigger POST may yield.
TriggerOutcomes ==
    {Err(e) : e \in TransportErrors}
    \cup {Ok([status |-> s, location |-> l]) : s \in TriggerStatuses, l \in LocationHeaders}

\* JSON values.
JNull == [j |-> "null"]
JStr(s) == [j |-> "string", s |-> s]
JNum(n) == [j |-> "number", n |-> n]
JObj(fields) == [j |-> "object", o |-> fields]

Build107 == "https://ci.example/job/smoke-test/107/"
Build108 == "https://ci.example/job/smoke-test/108/"

\* {"why":"waiting","executable":null}
BodyWaiting == [t |-> "json", json |-> JObj([why |-> JStr("waiting"), executable |-> JNull])]
\* {"why":"blocked"}: no executable member at all
BodyNoMember == [t |-> "json", json |-> JObj([why |-> JStr("blocked")])]
\* {"why":null,"executable":{"number":107,"url":".../107/"}}
BodyBuild107 ==
    [t |-> "json",
     json |-> JObj([why |-> JNull,
                 executable |-> JObj([number |-> JNum(107), url |-> JStr(Build107)])])]
\* {"id":42,"executable":{"number":108,"url":".../108/"}}: no why, an unknown member
BodyBuild108 ==
    [t |-> "json",
     json |-> JObj([id |-> JNum(42),
                 executable |-> JObj([number |-> JNum(108), url |-> JStr(Build108)])])]
\* {"why":null,"executable":{"number":"107","url":".../107/"}}: number is no integer
BodyBadNumber ==
    [t |-> "json",
     json |-> JObj([why |-> JNull,
                 executable |-> JObj([number |-> JStr("107"), url |-> JStr(Build107)])])]
\* An HTML error page: not JSON.
BodyHtml == [t |-> "text", text |-> "<html>"]
\* The connection broke while the body was read.
BodyAborted == [t |-> "aborted"]

Bodies ==
    {BodyWaiting, BodyNoMember, BodyBuild107, BodyBuild108, BodyBadNumber, BodyHtml,
     BodyAborted}

PollStatuses == {200, 403, 404, 500}
\* What send() of a poll GET may yield.
PollOutcomes ==
    {Err(e) : e \in TransportErrors}
    \cup {Ok([status |-> s, body |-> b]) : s \in PollStatuses, b \in Bodies}

\* The queue item urls a caller passes to poll_queue_item directly.
QueueItemUrls == {Location42, Location43}

(* ------------------------------- state -------------------------------- *)

VARIABLES
    url,        \* Jenkins.url
    user,       \* Jenkins.user
    password,   \* Jenkins.password
    pc,         \* per call: where the call stands
    op,         \* per call: the public method called
    args,       \* per call: its arguments
    queue_url,  \* per call: poll_queue_item's local queue_url
    log,        \* per call: the requests sent, outcomes received, sleeps completed
    result,     \* per call: the value returned
    last_url    \* what the latest get_url call returned

vars == <<url, user, password, pc, op, args, queue_url, log, result, last_url>>
client == <<url, user, password>>

\* Log events.
Sent(req) == [ev |-> "send", req |-> req]
Received(method, outcome) == [ev |-> "recv", to |-> method, res |-> outcome]
Slept(secs) == [ev |-> "sleep", secs |-> secs]

(* --------------------------- the program ------------------------------ *)

\* Variant of is_success: redirects count as success.
is_success_Below400(status) == 400 > status /\ status >= 200
\* http::StatusCode::is_success
is_success(status) == 300 > status /\ status >= 200

\* Variant of is_client_error: 404 only.
is_client_error_Only404(status) == status = 404
\* http::StatusCode::is_client_error
is_client_error(status) == 500 > status /\ status >= 400

\* RequestBuilder::basic_auth(user, Some(password))
basic_auth(u, p) == [username |-> u, password |-> Some(p)]

\* Jenkins::post
post(u) == [method |-> "POST", url |-> u, auth |-> basic_auth(user, password), form |-> None]

\* Variant of get: without basic_auth.
get_NoAuth(u) == [method |-> "GET", url |-> u, auth |-> None, form |-> None]
\* Jenkins::get
get(u) == [method |-> "GET", url |-> u, auth |-> basic_auth(user, password), form |-> None]

\* Variant of form: the parameters go into the query string, not the body.
form_AsQuery(req, params, order) ==
    [req EXCEPT !.url = @ \o "?" \o ToString(Cardinality(DOMAIN params))]
\* RequestBuilder::form(&params): one key/value pair per entry of the map, in the
\* order the map hands them out.
form(req, params, order) ==
    [req EXCEPT !.form = Some([i \in DOMAIN order |-> <<order[i], params[order[i]]>>])]

\* HeaderValue::to_str
to_str(h) == IF h.visible_ascii THEN Ok(h.bytes) ELSE Err("ToStrError")

\* A member of a JSON object, null when the object has none of that name.
Member(obj, name) == IF name \in DOMAIN obj.o THEN obj.o[name] ELSE JNull

\* Deserialize of Option<String>
DecodeOptString(jv) ==
    CASE jv.j = "null" -> Ok(None)
      [] jv.j = "string" -> Ok(Some(jv.s))
      [] OTHER -> Err("invalid type")

\* Deserialize of Option<QueueItemExecutable>; number is an i32, and every
\* integer of the model's bodies is one.
DecodeOptExecutable(jv) ==
    CASE jv.j = "null" -> Ok(None)
      [] jv.j = "object" ->
            IF /\ "number" \in DOMAIN jv.o
               /\ "url" \in DOMAIN jv.o
               /\ jv.o.number.j = "number"
               /\ jv.o.url.j = "string"
            THEN Ok(Some([number |-> jv.o.number.n, url |-> jv.o.url.s]))
            ELSE Err("invalid value")
      [] OTHER -> Err("invalid type")

\* Variant of json: a body that is not JSON counts as an empty queue item.
json_Lenient(body) ==
    IF body.t # "json" \/ body.json.j # "object"
    THEN Ok([why |-> None, executable |-> None])
    ELSE LET why == DecodeOptString(Member(body.json, "why"))
             executable == DecodeOptExecutable(Member(body.json, "executable"))
         IN IF why.ok /\ executable.ok
            THEN Ok([why |-> why.val, executable |-> executable.val])
            ELSE Err(ReqwestError("decode"))
\* Response::json::<QueueItemRes>(): read the body, then deserialize it.
json(body) ==
    CASE body.t = "aborted" -> Err(ReqwestError("body"))
      [] body.t = "text" -> Err(ReqwestError("decode"))
      [] OTHER ->
            IF body.json.j # "object"
            THEN Err(ReqwestError("decode"))
            ELSE LET why == DecodeOptString(Member(body.json, "why"))
                     executable == DecodeOptExecutable(Member(body.json, "executable"))
                 IN IF why.ok /\ executable.ok
                    THEN Ok([why |-> why.val, executable |-> executable.val])
                    ELSE Err(ReqwestError("decode"))

\* Variant of QueueUrl: a missing trailing slash is supplied.
QueueUrl_Normalized(queue_item_url) ==
    IF queue_item_url = Location43
    THEN queue_item_url \o "/api/json"
    ELSE queue_item_url \o "api/json"
\* poll_queue_item's queue_url
QueueUrl(queue_item_url) == queue_item_url \o "api/json"

Return_(value) == [next |-> "return", result |-> value]
Loop == [next |-> "loop"]

\* Variants of OnQueueItem: without the is_some() test; with the test inverted;
\* giving up on a queued item.
OnQueueItem_NoIsSome(qi_res) == Return_(Ok(qi_res))
OnQueueItem_Inverted(qi_res) ==
    IF qi_res.executable = None THEN Return_(Ok(qi_res)) ELSE Loop
OnQueueItem_GivesUp(qi_res) ==
    IF qi_res.executable # None THEN Return_(Ok(qi_res)) ELSE Return_(Err(QueueItemNotExists))
\* poll_queue_item on a decoded queue item: return it when it has an executable,
\* go round again when it has none.
OnQueueItem(qi_res) ==
    IF qi_res.executable # None THEN Return_(Ok(qi_res)) ELSE Loop

\* Variant of OnSendError: goes round again.
OnSendError_Retries(err) == Loop
\* poll_queue_item on an Err of the GET's send().
OnSendError(err) == Return_(Err(NetworkError(err)))

\* Variant of PollStep: a client error is retried.
PollStep_RetriesClientError(outcome) ==
    IF outcome.ok
    THEN IF is_client_error(outcome.val.status)
         THEN Loop
         ELSE LET qi_res == json(outcome.val.body)
              IN IF ~qi_res.ok
                 THEN Return_(Err(WithContext(qi_res.err,
                                              "parse queue item payload as json")))
                 ELSE OnQueueItem(qi_res.val)
    ELSE OnSendError(outcome.err)
\* One round of poll_queue_item's loop on the outcome of send(): return a value
\* or go round again.
PollStep(outcome) ==
    IF outcome.ok
    THEN IF is_client_error(outcome.val.status)
         THEN Return_(Err(QueueItemNotExists))
         ELSE LET qi_res == json(outcome.val.body)
              IN IF ~qi_res.ok
                 THEN Return_(Err(WithContext(qi_res.err,
                                              "parse queue item payload as json")))
                 ELSE OnQueueItem(qi_res.val)
    ELSE OnSendError(outcome.err)

\* Variant of OnMissingLocation: polls a default queue url.
OnMissingLocation_PollsDefault ==
    [next |-> "poll", queue_item_url |-> url \o "/queue/"]
\* build_with_parameter on a success response without a location header.
OnMissingLocation == Return_(Err(APIError("location header not available")))

\* build_with_parameter on the outcome of the POST's send(): return a value,
\* panic, or go on to poll_queue_item.
TriggerStep(outcome) ==
    IF outcome.ok
    THEN IF is_success(outcome.val.status)
         THEN IF outcome.val.location # None
              THEN LET queue_url_str == to_str(outcome.val.location.v)
                   IN IF queue_url_str.ok
                      THEN [next |-> "poll", queue_item_url |-> queue_url_str.val]
                      ELSE [next |-> "panic", message |-> "location header"]
              ELSE OnMissingLocation
         ELSE Return_(Err(APIError("http status: " \o ToString(outcome.val.status))))
    ELSE Return_(Err(outcome.err))

\* The trigger POST, as build_with_parameter builds it.
TriggerRequest(job, params, order) ==
    form(post(url \o "/job/" \o job \o "/buildWithParameters"), params, order)

\* The interval of poll_queue_item's sleep, in seconds.
PollIntervalSecs == 3

\* Variant of PollRound: the GET without the sleep.
PollRound_NoSleep(qurl) == <<Sent(get(qurl))>>
\* What the loop appends to the log between two awaits of send(): the sleep it
\* completed and the GET it then sends.
PollRound(qurl) == <<Slept(PollIntervalSecs), Sent(get(qurl))>>

(* ------------------------------ actions ------------------------------- *)

Init ==
    /\ url \in BaseUrls
    /\ user \in Users
    /\ password \in Passwords
    /\ pc = [c \in Calls |-> "idle"]
    /\ op = [c \in Calls |-> None]
    /\ args = [c \in Calls |-> None]
    /\ queue_url = [c \in Calls |-> None]
    /\ log = [c \in Calls |-> <<>>]
    /\ result = [c \in Calls |-> None]
    /\ last_url = None

\* The caller calls build_with_parameter(job, params); the call runs up to the
\* await of the POST's send().
build_with_parameter(c, job, params, order) ==
    /\ pc[c] = "idle"
    /\ op' = [op EXCEPT ![c] = Some("build_with_parameter")]
    /\ args' = [args EXCEPT ![c] = Some([job |-> job, params |-> params])]
    /\ log' = [log EXCEPT ![c] = <<Sent(TriggerRequest(job, params, order))>>]
    /\ pc' = [pc EXCEPT ![c] = "post"]
    /\ UNCHANGED <<client, queue_url, result, last_url>>

\* The POST's send() completes; the call runs up to its return, its panic, or
\* the first sleep of poll_queue_item.
PostDone(c, outcome) ==
    /\ pc[c] = "post"
    /\ LET step == TriggerStep(outcome)
       IN /\ log' = [log EXCEPT ![c] = Append(@, Received("POST", outcome))]
          /\ CASE step.next = "poll" ->
                    /\ queue_url' = [queue_url EXCEPT ![c] = Some(QueueUrl(step.queue_item_url))]
                    /\ pc' = [pc EXCEPT ![c] = "sleep"]
                    /\ UNCHANGED result
               [] step.next = "panic" ->
                    /\ pc' = [pc EXCEPT ![c] = "panicked"]
                    /\ UNCHANGED <<queue_url, result>>
               [] OTHER ->
                    /\ result' = [result EXCEPT ![c] = Some(step.result)]
                    /\ pc' = [pc EXCEPT ![c] = "done"]
                    /\ UNCHANGED queue_url
    /\ UNCHANGED <<client, op, args, last_url>>

\* The caller calls poll_queue_item(queue_item_url); the call runs up to the
\* await of the first sleep.
poll_queue_item(c, queue_item_url) ==
    /\ pc[c] = "idle"
    /\ op' = [op EXCEPT ![c] = Some("poll_queue_item")]
    /\ args' = [args EXCEPT ![c] = Some([queue_item_url |-> queue_item_url])]
    /\ queue_url' = [queue_url EXCEPT ![c] = Some(QueueUrl(queue_item_url))]
    /\ log' = [log EXCEPT ![c] = <<>>]
    /\ pc' = [pc EXCEPT ![c] = "sleep"]
    /\ UNCHANGED <<client, result, last_url>>

\* The GETs a log holds.
Gets(l) == SelectSeq(l, LAMBDA e : e.ev = "send" /\ e.req.method = "GET")

\* Variant of SleepDone: queue_url kept as one field shared by the calls, the
\* first call that set it wins.
SleepDone_SharedQueueUrl(c) ==
    /\ pc[c] = "sleep"
    /\ Len(Gets(log[c])) < MaxPolls
    /\ LET first == CHOOSE d \in Calls :
                        /\ queue_url[d] # None
                        /\ \A e \in Calls : queue_url[e] # None => d <= e
       IN log' = [log EXCEPT ![c] = @ \o PollRound(queue_url[first].v)]
    /\ pc' = [pc EXCEPT ![c] = "get"]
    /\ UNCHANGED <<client, op, args, queue_url, result, last_url>>
\* The sleep completes; the call sends the GET and awaits it.
SleepDone(c) ==
    /\ pc[c] = "sleep"
    /\ Len(Gets(log[c])) < MaxPolls
    /\ log' = [log EXCEPT ![c] = @ \o PollRound(queue_url[c].v)]
    /\ pc' = [pc EXCEPT ![c] = "get"]
    /\ UNCHANGED <<client, op, args, queue_url, result, last_url>>

\* The GET's send() completes; the call runs up to its return or the next sleep.
GetDone(c, outcome) ==
    /\ pc[c] = "get"
    /\ LET step == PollStep(outcome)
       IN /\ log' = [log EXCEPT ![c] = Append(@, Received("GET", outcome))]
          /\ IF step.next = "loop"
             THEN /\ pc' = [pc EXCEPT ![c] = "sleep"]
                  /\ UNCHANGED result
             ELSE /\ result' = [result EXCEPT ![c] = Some(step.result)]
                  /\ pc' = [pc EXCEPT ![c] = "done"]
    /\ UNCHANGED <<client, op, args, queue_url, last_url>>

\* The caller takes the returned value (or the panic unwinds the call): the
\* call's frame is gone.
Return(c) ==
    /\ pc[c] \in {"done", "panicked"}
    /\ pc' = [pc EXCEPT ![c] = "idle"]
    /\ op' = [op EXCEPT ![c] = None]
    /\ args' = [args EXCEPT ![c] = None]
    /\ queue_url' = [queue_url EXCEPT ![c] = None]
    /\ log' = [log EXCEPT ![c] = <<>>]
    /\ result' = [result EXCEPT ![c] = None]
    /\ UNCHANGED <<client, last_url>>

\* The per-call state.
calls == <<pc, op, args, queue_url, log, result>>

\* Variant of GetUrl: the url is moved out of the client.
GetUrl_Takes ==
    /\ last_url' = Some(url)
    /\ url' = ""
    /\ UNCHANGED <<user, password, calls>>
\* The caller calls get_url, which returns at once (it has no await), at any
\* time, also while calls are in flight.
GetUrl ==
    /\ last_url' = Some(url)
    /\ UNCHANGED <<client, calls>>

\* The caller awaits each call before it makes the next one.
Sequential == \A c \in Calls : pc[c] = "idle"

Next ==
    \E c \in Calls :
        \/ \E job \in Jobs, params \in ParamMaps :
              \E order \in Orders(DOMAIN params) :
                 Sequential /\ build_with_parameter(c, job, params, order)
        \/ \E queue_item_url \in QueueItemUrls :
              Sequential /\ poll_queue_item(c, queue_item_url)
        \/ \E outcome \in TriggerOutcomes : PostDone(c, outcome)
        \/ SleepDone(c)
        \/ \E outcome \in PollOutcomes : GetDone(c, outcome)
        \/ Return(c)
        \/ GetUrl

Spec == Init /\ [][Next]_vars

(* ------------------------- concurrent calls --------------------------- *)

\* The inputs of the concurrent specification: fewer than Spec's, so that the
\* product of the calls' states stays small.
ConcParamMaps == {EnvParams}
ConcTriggerOutcomes ==
    {Err(ReqwestError("connect")),
     Ok([status |-> 201, location |-> Some(HeaderValue(Location42, TRUE))]),
     Ok([status |-> 201, location |-> Some(HeaderValue(Location43, TRUE))])}
ConcPollOutcomes ==
    {Err(ReqwestError("timeout")),
     Ok([status |-> 200, body |-> BodyWaiting]),
     Ok([status |-> 200, body |-> BodyBuild107]),
     Ok([status |-> 404, body |-> BodyHtml])}
ConcQueueItemUrls == {Location43}

\* The caller holds several calls of the one client at a time (join!, spawn):
\* any call may start, and any call in flight may take its next step.
NextConc ==
    \E c \in Calls :
        \/ \E job \in Jobs, params \in ConcParamMaps :
              \E order \in Orders(DOMAIN params) :
                 build_with_parameter(c, job, params, order)
        \/ \E queue_item_url \in ConcQueueItemUrls :
              poll_queue_item(c, queue_item_url)
        \/ \E outcome \in ConcTriggerOutcomes : PostDone(c, outcome)
        \/ SleepDone(c)
        \/ \E outcome \in ConcPollOutcomes : GetDone(c, outcome)
        \/ Return(c)

SpecConc == Init /\ [][NextConc]_vars

(* ------------------- observations for the properties ------------------ *)

\* The positions of a call's log that hold the outcome of a poll GET.
PollIdx(c) == {i \in DOMAIN log[c] : log[c][i].ev = "recv" /\ log[c][i].to = "GET"}
\* The positions that hold a response (not a transport error) to a poll GET.
PollResponseIdx(c) == {i \in PollIdx(c) : log[c][i].res.ok}
\* The positions that hold the outcome of the trigger POST.
TriggerIdx(c) == {i \in DOMAIN log[c] : log[c][i].ev = "recv" /\ log[c][i].to = "POST"}
\* The positions at which a call handed a request to the transport.
SendIdx(c, method) ==
    {i \in DOMAIN log[c] : log[c][i].ev = "send" /\ log[c][i].req.method = method}
SleepIdx(c) == {i \in DOMAIN log[c] : log[c][i].ev = "sleep"}
Min(S) == CHOOSE i \in S : \A j \in S : i <= j

\* The raw body is a JSON object (whose why, if any, is a string or null).
IsQueueItemJson(body) ==
    /\ body.t = "json"
    /\ body.json.j = "object"
    /\ "why" \in DOMAIN body.json.o => body.json.o.why.j \in {"null", "string"}
\* `executable` is present in the raw body: a member that is not null.
ExecutablePresent(body) ==
    /\ body.t = "json"
    /\ body.json.j = "object"
    /\ "executable" \in DOMAIN body.json.o
    /\ body.json.o.executable.j # "null"
\* `executable` is absent from a queue item body: no such member, or null.
ExecutableAbsent(body) == IsQueueItemJson(body) /\ ~ExecutablePresent(body)
\* `executable` is present and has the shape {number: integer, url: string}.
ExecutableWellFormed(body) ==
    /\ IsQueueItemJson(body)
    /\ ExecutablePresent(body)
    /\ body.json.o.executable.j = "object"
    /\ {"number", "url"} \subseteq DOMAIN body.json.o.executable.o
    /\ body.json.o.executable.o.number.j = "number"
    /\ body.json.o.executable.o.url.j = "string"
\* The returned value carries the number/url pair of the raw body.
SamePair(value, body) ==
    /\ value.executable # None
    /\ value.executable.v.number = body.json.o.executable.o.number.n
    /\ value.executable.v.url = body.json.o.executable.o.url.s

Done(c) == pc[c] = "done"
Returned(c) == result[c].v
Status2xx == 200..299
Status4xx == 400..499

(* ------------------------------- C1 ----------------------------------- *)

\* The poll responses of call c in which `executable` is present.
PresentIdx(c) == {i \in PollResponseIdx(c) : ExecutablePresent(log[c][i].res.val.body)}

\* C1: a call returns success only if some poll response it received had
\* `executable` present; the value it returns is the number/url pair of the first
\* such response; and nothing is sent (nor slept) after that response.
C1_FirstExecutable ==
    \A c \in Calls :
        /\ (Done(c) /\ Returned(c).ok) =>
              /\ PresentIdx(c) # {}
              /\ SamePair(Returned(c).val, log[c][Min(PresentIdx(c))].res.val.body)
        /\ PresentIdx(c) # {} => Min(PresentIdx(c)) = Len(log[c])

C1_Witness ==
    \E c \in Calls :
        /\ Done(c) /\ Returned(c).ok
        /\ Cardinality(PollIdx(c)) >= 2
        /\ Returned(c).val.executable.v.number = 108

(* ------------------------------- C2 ----------------------------------- *)

\* C2: a poll response with a 4xx status ends the call at once with
\* QueueItemNotExists, whatever its body: it is the last entry of the log (no
\* sleep, no GET follows it).
C2_ClientErrorVanishes ==
    \A c \in Calls : \A i \in PollResponseIdx(c) :
        log[c][i].res.val.status \in Status4xx =>
            /\ i = Len(log[c])
            /\ Done(c)
            /\ Returned(c) = Err(QueueItemNotExists)

C2_Witness ==
    \E c \in Calls : \E i \in PollResponseIdx(c) :
        /\ log[c][i].res.val.status = 403
        /\ ExecutablePresent(log[c][i].res.val.body)
        /\ Cardinality(PollIdx(c)) = 2
        /\ Done(c)

(* ------------------------------- C3 ----------------------------------- *)

\* C3: a transport failure of the k-th poll GET ends the call at once with
\* Error::NetworkError wrapping that failure: it is the last entry of the log.
C3_PollTransportFailure ==
    \A c \in Calls : \A i \in PollIdx(c) :
        ~log[c][i].res.ok =>
            /\ i = Len(log[c])
            /\ Done(c)
            /\ Returned(c) = Err(NetworkError(log[c][i].res.err))

C3_Witness ==
    \E c \in Calls : \E i \in PollIdx(c) :
        /\ ~log[c][i].res.ok
        /\ log[c][i].res.err.kind = "timeout"
        /\ Cardinality(PollIdx(c)) = 3
        /\ Done(c)

(* ------------------------------- C4 ----------------------------------- *)

\* C4: a transport failure of the trigger POST makes build_with_parameter fail
\* with Error::NetworkError wrapping that failure, and the call neither sleeps
\* nor polls.
C4_TriggerTransportFailure ==
    \A c \in Calls : \A i \in TriggerIdx(c) :
        ~log[c][i].res.ok =>
            /\ Done(c)
            /\ Returned(c) = Err(NetworkError(log[c][i].res.err))
            /\ SleepIdx(c) = {} /\ SendIdx(c, "GET") = {}

(* ------------------------------- C5 ----------------------------------- *)

\* C5: a 2xx trigger response without a Location header makes
\* build_with_parameter fail with Error::APIError, and the call neither sleeps
\* nor polls.
C5_MissingLocation ==
    \A c \in Calls : \A i \in TriggerIdx(c) :
        (/\ log[c][i].res.ok
         /\ log[c][i].res.val.status \in Status2xx
         /\ log[c][i].res.val.location = None) =>
            /\ Done(c)
            /\ ~Returned(c).ok
            /\ Returned(c).err.ty = "Error" /\ Returned(c).err.variant = "APIError"
            /\ SleepIdx(c) = {} /\ SendIdx(c, "GET") = {}
            /\ queue_url[c] = None

C5_Witness ==
    \E c \in Calls : \E i \in TriggerIdx(c) :
        /\ log[c][i].res.ok
        /\ log[c][i].res.val.status = 201
        /\ log[c][i].res.val.location = None
        /\ Done(c)

(* ------------------------------- C6 ----------------------------------- *)

\* C6: a trigger response with a status outside 2xx makes build_with_parameter
\* fail with the Error::APIError that carries that status (so never with
\* QueueItemNotExists), and the call neither sleeps nor polls, with or without a
\* Location header in the response.
C6_NonSuccessStatus ==
    \A c \in Calls : \A i \in TriggerIdx(c) :
        (log[c][i].res.ok /\ log[c][i].res.val.status \notin Status2xx) =>
            /\ Done(c)
            /\ Returned(c) =
                  Err(APIError("http status: " \o ToString(log[c][i].res.val.status)))
            /\ SleepIdx(c) = {} /\ SendIdx(c, "GET") = {}
            /\ queue_url[c] = None

C6_Witness ==
    \E c \in Calls : \E i \in TriggerIdx(c) :
        /\ log[c][i].res.ok
        /\ log[c][i].res.val.status = 404
        /\ log[c][i].res.val.location = Some(HeaderValue(Location42, TRUE))
        /\ Done(c)

(* ------------------------------- C7 ----------------------------------- *)

\* C7: every poll GET is immediately preceded in the log by a completed sleep of
\* 3 seconds of its own (the first GET too), and when poll_queue_item has
\* terminated the call has completed as many sleeps as it has sent GETs, at
\* least one.
C7_SleepBeforeEveryPoll ==
    \A c \in Calls :
        /\ \A i \in SendIdx(c, "GET") : i > 1 /\ log[c][i - 1] = Slept(3)
        /\ \A i \in SleepIdx(c) :
              i < Len(log[c]) =>
                 log[c][i + 1].ev = "send" /\ log[c][i + 1].req.method = "GET"
        /\ (Done(c) /\ queue_url[c] # None) =>
              /\ Cardinality(SleepIdx(c)) = Cardinality(SendIdx(c, "GET"))
              /\ Cardinality(SendIdx(c, "GET")) >= 1

C7_Witness ==
    \E c \in Calls :
        /\ Done(c)
        /\ op[c] = Some("poll_queue_item")
        /\ Cardinality(SendIdx(c, "GET")) = 3
        /\ Cardinality(SleepIdx(c)) = 3

(* ------------------------------- C8 ----------------------------------- *)

\* The key/value pairs of a parameter mapping.
Pairs(params) == {<<k, params[k]>> : k \in DOMAIN params}

\* C8: at every point of a build_with_parameter call, whatever its outcome, the
\* call has sent exactly one POST, first of all, and the form fields of that
\* POST are the caller's key/value pairs, each once and none added, in whatever
\* order the map handed them out.
C8_OnePostAllFields ==
    \A c \in Calls :
        op[c] = Some("build_with_parameter") =>
            /\ SendIdx(c, "POST") = {1}
            /\ log[c][1].req.form # None
            /\ LET fields == log[c][1].req.form.v
               IN /\ {fields[i] : i \in DOMAIN fields} = Pairs(args[c].v.params)
                  /\ Len(fields) = Cardinality(DOMAIN args[c].v.params)

C8_Witness ==
    \E c \in Calls :
        /\ op[c] = Some("build_with_parameter")
        /\ Done(c) /\ ~Returned(c).ok
        /\ Cardinality(SendIdx(c, "GET")) = 2
        /\ args[c].v.params = AdhocParams
        /\ log[c][1].req.form.v[1][1] = "Module"

(* ------------------------------- C9 ----------------------------------- *)

\* The trigger POST of call c was answered 2xx with a Location header that is text.
Triggered(c) ==
    /\ op[c] = Some("build_with_parameter")
    /\ \E i \in TriggerIdx(c) :
          /\ log[c][i].res.ok
          /\ log[c][i].res.val.status \in Status2xx
          /\ log[c][i].res.val.location # None
          /\ log[c][i].res.val.location.v.visible_ascii
\* Position i holds a success response in which `executable` is absent.
QueuedAt(c, i) ==
    /\ log[c][i].res.ok
    /\ log[c][i].res.val.status \in Status2xx
    /\ ExecutableAbsent(log[c][i].res.val.body)
\* Position i holds a success response in which `executable` is present.
AssignedAt(c, i) ==
    /\ log[c][i].res.ok
    /\ log[c][i].res.val.status \in Status2xx
    /\ ExecutableWellFormed(log[c][i].res.val.body)
Max(S) == CHOOSE i \in S : \A j \in S : i >= j

\* C9: after a 2xx trigger response with a Location header, while the k polls
\* answered so far were all success responses without `executable` the call is
\* still polling, and once they are followed by a success response with
\* `executable` the call has returned that response's number/url after exactly
\* k+1 polls.
C9_EndToEnd ==
    \A c \in Calls :
        Triggered(c) =>
            /\ (\A i \in PollIdx(c) : QueuedAt(c, i)) =>
                  /\ pc[c] \in {"sleep", "get"}
                  /\ Cardinality(SendIdx(c, "GET")) \in
                        {Cardinality(PollIdx(c)), Cardinality(PollIdx(c)) + 1}
            /\ (/\ PollIdx(c) # {}
                /\ AssignedAt(c, Max(PollIdx(c)))
                /\ \A i \in PollIdx(c) \ {Max(PollIdx(c))} : QueuedAt(c, i)) =>
                  /\ Done(c)
                  /\ Returned(c).ok
                  /\ SamePair(Returned(c).val, log[c][Max(PollIdx(c))].res.val.body)
                  /\ Cardinality(SendIdx(c, "GET")) = Cardinality(PollIdx(c))
                  /\ Max(PollIdx(c)) = Len(log[c])

\* The scenario of the specification: job smoke-test, {"Env": "staging"}, 201
\* with Location .../queue/item/42/, two polls answered "waiting", the third
\* build 107.
C9_Witness ==
    \E c \in Calls :
        /\ args[c] = Some([job |-> "smoke-test", params |-> EnvParams])
        /\ Len(log[c]) = 11
        /\ log[c][2].res = Ok([status |-> 201,
                               location |-> Some(HeaderValue(Location42, TRUE))])
        /\ \A i \in SendIdx(c, "GET") :
              log[c][i].req.url = "https://ci.example/queue/item/42/api/json"
        /\ log[c][5].res = Ok([status |-> 200, body |-> BodyWaiting])
        /\ log[c][8].res = Ok([status |-> 200, body |-> BodyWaiting])
        /\ log[c][11].res = Ok([status |-> 200, body |-> BodyBuild107])
        /\ Done(c)
        /\ Returned(c) =
              Ok([why |-> None,
                  executable |-> Some([number |-> 107,
                                       url |-> "https://ci.example/job/smoke-test/107/"])])

(* ------------------------------- C10 ---------------------------------- *)

\* poll_queue_item has run in call c.
Polling(c) == queue_url[c] # None
Resolved(c) == Returned(c).ok /\ Returned(c).val.executable # None
Vanished(c) == Returned(c) = Err(QueueItemNotExists)
TransportFailed(c) ==
    /\ ~Returned(c).ok
    /\ Returned(c).err.ty = "Error"
    /\ Returned(c).err.variant = "NetworkError"
DecodeFailed(c) ==
    /\ ~Returned(c).ok
    /\ Returned(c).err.ty = "Context"
    /\ Returned(c).err.context = "parse queue item payload as json"
    /\ Returned(c).err.source.ty = "reqwest::Error"
\* The connection broke while the body of a response was read.
BodyReadFailed(c) ==
    /\ ~Returned(c).ok
    /\ Returned(c).err.ty = "Context"
    /\ Returned(c).err.source.kind = "body"
\* While every poll answered so far was a success response without `executable`,
\* the call is in the loop: asleep before its next GET, or awaiting one.
KeepsPolling(c) ==
    (\A i \in PollIdx(c) : QueuedAt(c, i)) => pc[c] \in {"sleep", "get"}

\* C10 as stated: the loop keeps polling while the item is queued, and it ends
\* only as Resolved, as Vanished or with a transport error (of the GET, or of
\* the read of a response's body).
C10_OnlyThreeExits ==
    \A c \in Calls :
        Polling(c) =>
            /\ KeepsPolling(c)
            /\ Done(c) =>
                  Resolved(c) \/ Vanished(c) \/ TransportFailed(c) \/ BodyReadFailed(c)

\* C10 as amended: the loop keeps polling while the item is queued, and it ends
\* only as Resolved, as Vanished, with a transport error, or with the error of a
\* body that could not be read and parsed as a queue item.
C10_FourExits ==
    \A c \in Calls :
        Polling(c) =>
            /\ KeepsPolling(c)
            /\ Done(c) =>
                  Resolved(c) \/ Vanished(c) \/ TransportFailed(c) \/ DecodeFailed(c)

C10_Witness ==
    \E c \in Calls :
        /\ Polling(c)
        /\ Cardinality(PollIdx(c)) = 3
        /\ \A i \in PollIdx(c) \ {Max(PollIdx(c))} : QueuedAt(c, i)
        /\ Done(c)
        /\ DecodeFailed(c)

(* ------------------------------- C11 ---------------------------------- *)

\* C11: every call ends by returning Ok or Err to its caller: no call panics,
\* and a build_with_parameter call whose trigger outcome has arrived and that
\* did not go on to poll has returned a value.
C11_NeverPanics ==
    \A c \in Calls :
        /\ pc[c] # "panicked"
        /\ (TriggerIdx(c) # {} /\ ~Polling(c)) => (Done(c) /\ result[c] # None)

(* ------------------------------- C12 ---------------------------------- *)

\* The body does not parse as a queue item: it has neither the shape without
\* `executable` nor the shape with {number, url}.
Malformed(body) == ~(ExecutableAbsent(body) \/ ExecutableWellFormed(body))

\* C12: a success response whose body does not parse as a queue item ends the
\* call at once (it is the last entry of the log) with the contextual parse
\* error, which is neither QueueItemNotExists nor a network error.
C12_MalformedBody ==
    \A c \in Calls : \A i \in PollResponseIdx(c) :
        (/\ log[c][i].res.val.status \in Status2xx
         /\ Malformed(log[c][i].res.val.body)) =>
            /\ i = Len(log[c])
            /\ Done(c)
            /\ DecodeFailed(c)
            /\ ~Vanished(c) /\ ~TransportFailed(c)

C12_Witness ==
    \E c \in Calls : \E i \in PollResponseIdx(c) :
        /\ log[c][i].res.val = [status |-> 200, body |-> BodyHtml]
        /\ Cardinality(PollIdx(c)) = 2
        /\ Done(c)

(* ------------------------------- C14 ---------------------------------- *)

\* The queue item location call c polls: the text of the Location header of the
\* trigger response, or the argument of a direct poll_queue_item call.
LocationOf(c) ==
    IF op[c] = Some("poll_queue_item")
    THEN args[c].v.queue_item_url
    ELSE log[c][Min(TriggerIdx(c))].res.val.location.v.bytes

\* C14: every poll GET of a call targets the one url made of the Location
\* header value as received (no slash added or removed) followed by the
\* literal api/json.
C14_LocationVerbatim ==
    \A c \in Calls :
        (Triggered(c) \/ op[c] = Some("poll_queue_item")) =>
            /\ queue_url[c] = Some(LocationOf(c) \o "api/json")
            /\ \A i \in SendIdx(c, "GET") :
                  log[c][i].req.url = LocationOf(c) \o "api/json"

C14_Witness ==
    \E c \in Calls :
        /\ Triggered(c)
        /\ LocationOf(c) = "https://ci.example/queue/item/43"
        /\ Cardinality(SendIdx(c, "GET")) = 3
        /\ \A i \in SendIdx(c, "GET") :
              log[c][i].req.url = "https://ci.example/queue/item/43api/json"

(* ------------------------------- C16 ---------------------------------- *)

\* C16: a poll response whose status is neither 2xx nor 4xx is never decoded
\* into a result: it ends the call (it is the last entry of the log, so no
\* further poll follows it as if the item were queued) and the call does not
\* return an Executable from it.
C16_OnlySuccessDecoded ==
    \A c \in Calls : \A i \in PollResponseIdx(c) :
        log[c][i].res.val.status \notin (Status2xx \cup Status4xx) =>
            /\ i = Len(log[c])
            /\ Done(c)
            /\ ~Returned(c).ok

(* ------------------------------- C17 ---------------------------------- *)

\* C17: every request a call hands to the transport, the POST and each GET,
\* carries Basic credentials with the client's username and secret.
C17_BasicAuthEverywhere ==
    \A c \in Calls : \A i \in DOMAIN log[c] :
        log[c][i].ev = "send" =>
            log[c][i].req.auth = [username |-> user, password |-> Some(password)]

C17_Witness ==
    \E c \in Calls :
        /\ Done(c)
        /\ SendIdx(c, "POST") # {}
        /\ Cardinality(SendIdx(c, "GET")) = 2
        /\ \A i \in SendIdx(c, "GET") \cup SendIdx(c, "POST") :
              log[c][i].req.auth.username = user

(* ------------------------------- C18 ---------------------------------- *)

\* C18: no step of any call changes the client's url, user or password, and
\* what get_url returned is the client's url, which therefore is the one the
\* client was built with.
C18_ClientImmutable ==
    /\ [][client' = client]_vars
    /\ [](last_url # None => last_url = Some(url))

C18_Witness ==
    /\ last_url = Some(url)
    /\ \E c \in Calls : Done(c) /\ ~Returned(c).ok /\ Cardinality(PollIdx(c)) = 2
    /\ \E c \in Calls : pc[c] = "idle"

(* ------------------------------- C13 ---------------------------------- *)

\* The outcomes call c has received, in order.
Outcomes(c) ==
    LET recv == SelectSeq(log[c], LAMBDA e : e.ev = "recv")
    IN [i \in DOMAIN recv |-> recv[i].res]

Frame(lg, at, res, qurl) == [log |-> lg, pc |-> at, result |-> res, queue_url |-> qurl]

\* The states of a poll_queue_item run alone that is about to sleep with log lg
\* and then receives exactly the outcomes outs.
RECURSIVE PollAlone(_, _, _)
PollAlone(qurl, lg, outs) ==
    IF outs = <<>>
    THEN {Frame(lg, "sleep", None, Some(qurl)),
          Frame(lg \o PollRound(qurl), "get", None, Some(qurl))}
    ELSE LET lg2 == lg \o PollRound(qurl) \o <<Received("GET", Head(outs))>>
             step == PollStep(Head(outs))
         IN IF step.next = "loop"
            THEN PollAlone(qurl, lg2, Tail(outs))
            ELSE IF Tail(outs) = <<>>
                 THEN {Frame(lg2, "done", Some(step.result), Some(qurl))}
                 ELSE {}

\* The states of a build_with_parameter run alone that receives exactly outs.
TriggerAlone(job, params, outs) ==
    UNION {LET lg0 == <<Sent(TriggerRequest(job, params, order))>>
           IN IF outs = <<>>
              THEN {Frame(lg0, "post", None, None)}
              ELSE LET lg1 == Append(lg0, Received("POST", Head(outs)))
                       step == TriggerStep(Head(outs))
                   IN CASE step.next = "poll" ->
                             PollAlone(QueueUrl(step.queue_item_url), lg1, Tail(outs))
                        [] step.next = "panic" ->
                             IF Tail(outs) = <<>>
                             THEN {Frame(lg1, "panicked", None, None)}
                             ELSE {}
                        [] OTHER ->
                             IF Tail(outs) = <<>>
                             THEN {Frame(lg1, "done", Some(step.result), None)}
                             ELSE {}
           : order \in Orders(DOMAIN params)}

\* What call c can be, had it run alone on this client with its arguments and
\* received the outcomes it has received.
Alone(c) ==
    IF op[c] = Some("build_with_parameter")
    THEN TriggerAlone(args[c].v.job, args[c].v.params, Outcomes(c))
    ELSE PollAlone(QueueUrl(args[c].v.queue_item_url), <<>>, Outcomes(c))

\* C13: under every interleaving of the calls' sleeps and round trips, each
\* call's requests, sleeps, position and returned value are those of the same
\* call run alone against the outcomes it received itself.
C13_CallsIndependent ==
    \A c \in Calls :
        pc[c] # "idle" => Frame(log[c], pc[c], result[c], queue_url[c]) \in Alone(c)

C13_Witness ==
    \E c, d \in Calls :
        /\ c # d
        /\ pc[c] = "get" /\ pc[d] = "sleep"
        /\ Cardinality(PollIdx(c)) = 1 /\ Cardinality(PollIdx(d)) = 2
        /\ op[c] = Some("build_with_parameter") /\ op[d] = Some("build_with_parameter")
        /\ queue_url[c] # queue_url[d]

(* ------------------------------- C15 ---------------------------------- *)

\* The outcome is terminal: a transport failure, a client-error status, or a
\* success status with `executable` present.
Terminal(outcome) ==
    \/ ~outcome.ok
    \/ outcome.val.status \in Status4xx
    \/ outcome.val.status \in Status2xx /\ ExecutableWellFormed(outcome.val.body)
TerminalOutcomes == {o \in PollOutcomes : Terminal(o)}

\* The server answers some poll of every call with a terminal outcome: the poll
\* numbered MaxPolls at the latest.
AnswersOf(c) ==
    IF Len(Gets(log[c])) = MaxPolls THEN TerminalOutcomes ELSE PollOutcomes

NextFair ==
    \E c \in Calls :
        \/ \E job \in Jobs, params \in ParamMaps :
              \E order \in Orders(DOMAIN params) :
                 Sequential /\ build_with_parameter(c, job, params, order)
        \/ \E queue_item_url \in QueueItemUrls :
              Sequential /\ poll_queue_item(c, queue_item_url)
        \/ \E outcome \in TriggerOutcomes : PostDone(c, outcome)
        \/ SleepDone(c)
        \/ \E outcome \in AnswersOf(c) : GetDone(c, outcome)
        \/ Return(c)

\* The runtime fires every timer, and every GET handed to the transport is
\* answered.
SpecFair ==
    /\ Init
    /\ [][NextFair]_vars
    /\ \A c \in Calls :
          /\ WF_vars(SleepDone(c))
          /\ WF_vars(\E outcome \in AnswersOf(c) : GetDone(c, outcome))

\* C15: a call in the polling loop eventually terminates, and a terminal
\* outcome ends it at once (it is the last entry of the log, hence the first
\* terminal one) with the matching result: the executable's number/url,
\* QueueItemNotExists, or the network error.
C15_TerminatesAtFirstTerminal ==
    /\ \A c \in Calls : (pc[c] \in {"sleep", "get"}) ~> Done(c)
    /\ [](\A c \in Calls : \A i \in PollIdx(c) :
             Terminal(log[c][i].res) =>
                /\ i = Len(log[c])
                /\ Done(c)
                /\ IF ~log[c][i].res.ok
                   THEN Returned(c) = Err(NetworkError(log[c][i].res.err))
                   ELSE IF log[c][i].res.val.status \in Status4xx
                        THEN Vanished(c)
                        ELSE /\ Resolved(c)
                             /\ SamePair(Returned(c).val, log[c][i].res.val.body))

C15_Witness ==
    \E c \in Calls :
        /\ Done(c)
        /\ Vanished(c)
        /\ Cardinality(PollIdx(c)) = 3
        /\ \A i \in PollIdx(c) \ {Max(PollIdx(c))} :
              log[c][i].res = Ok([status |-> 500, body |-> BodyWaiting])

====
